---- MODULE Spec2Model ----
(***************************************************************************)
(* ResolutionBox (app/components/resolutionBox): the banner that tells how *)
(* an issue was resolved.  renderReason is a pure function of the          *)
(* resolution status details, the project id and the activity history;     *)
(* ResolutionBox invokes it on every render.                               *)
(*                                                                         *)
(* JavaScript values are modelled as follows.  An object is a record whose *)
(* DOMAIN holds exactly the properties that are present, so an optional    *)
(* property that is absent is absent from the DOMAIN.  The value of an     *)
(* expression that may be undefined is `undefined` or Str(s).  A React     *)
(* element is a record of its props; a translated message is the record of *)
(* its template and of the values bound to the template's placeholders.    *)
(***************************************************************************)
EXTENDS Integers, Sequences, FiniteSets, TLC

VARIABLES statusDetails, projectId, activitiesProp, rendered, renders,
          opts, built, returned

\* the banner's props and output; the URL builder's argument, the discover
\* query it built (if any) and the value it returned (if it was called)
bannerVars == <<statusDetails, projectId, activitiesProp, rendered, renders>>

urlVars == <<opts, built, returned>>

vars == <<statusDetails, projectId, activitiesProp, rendered, renders,
          opts, built, returned>>

(* ------------------------------ bounds --------------------------------- *)

\* longest activity history handed to the banner
MaxActivities == 2
\* number of times the banner is rendered with the same props
MaxRenders == 2
\* longest list of projects handed to getIncidentDiscoverUrl
MaxProjects == 2

(* --------------------------- JavaScript values ------------------------- *)

undefined == [typeof |-> "undefined"]

Str(s) == [typeof |-> "string", value |-> s]

TypeError == [throw |-> "TypeError"]

\* JavaScript truthiness of a string-or-undefined value
Truthy(v) == v # undefined /\ v.value # ""

\* obj.name of an object whose property may be absent
Get(obj, name) == IF name \in DOMAIN obj THEN Str(obj[name]) ELSE undefined

EmptyObject == [k \in {} |-> k]

\* {name: value} when the optional value is given, {} otherwise
Prop(name, opt) == IF opt = <<>> THEN EmptyObject ELSE name :> opt[1]

Opt(S) == {<<>>} \cup {<<s>> : s \in S}

(* ------------------------------ the inputs ----------------------------- *)

\* GroupActivityType.SET_RESOLVED_IN_RELEASE
SET_RESOLVED_IN_RELEASE == "set_resolved_in_release"

Actors == {[name |-> "Alice"], [id |-> "7"]}

Commits == {[id |-> "abc123", repository |-> "repo", dateCreated |-> "2021-06-01"]}

\* ResolutionStatusDetails: every field is optional
ResolutionStatusDetails ==
  { Prop("actor", a) @@ Prop("inNextRelease", n) @@ Prop("inRelease", r)
      @@ Prop("inCommit", c) :
      a \in Opt(Actors), n \in Opt(BOOLEAN), r \in Opt({"", "1.2.0"}),
      c \in Opt(Commits) }

\* GroupActivity: a note, or a set-resolved-in-release entry whose data may or
\* may not carry a current_release_version
GroupActivity ==
  {[type |-> "note", data |-> [text |-> "hello"]]}
    \cup {[type |-> SET_RESOLVED_IN_RELEASE, data |-> Prop("current_release_version", v)] :
            v \in Opt({"", "1.3.0", "1.4.0"})}

RECURSIVE SeqsUpTo(_, _)
SeqsUpTo(S, n) ==
  IF n = 0 THEN {<<>>}
  ELSE LET shorter == SeqsUpTo(S, n - 1)
       IN shorter \cup {Append(s, x) : s \in {t \in shorter : Len(t) = n - 1}, x \in S}

Histories == SeqsUpTo(GroupActivity, MaxActivities)

ProjectIds == {"1"}

(* ------------------------- rendered elements --------------------------- *)

\* <strong><UserAvatar user=.. size={20}/><span>{actor.name}</span></strong>
actorElement(sd) ==
  [UserAvatar |-> [user |-> sd.actor, size |-> 20], span |-> Get(sd.actor, "name")]

\* <Version version=.. projectId=.. tooltipRawVersion />
Version(version, pid) ==
  [version |-> version, projectId |-> pid, tooltipRawVersion |-> TRUE]

\* variant: the commit link is rendered without its repository
commitElement_noRepository(inCommit) ==
  [CommitLink |-> [commitId |-> inCommit.id],
   TimeSince |-> [date |-> inCommit.dateCreated]]

\* <Fragment><CommitLink commitId=.. repository=.. /><StyledTimeSince date=.. /></Fragment>
commitElement(inCommit) ==
  [CommitLink |-> [commitId |-> inCommit.id, repository |-> inCommit.repository],
   TimeSince |-> [date |-> inCommit.dateCreated]]

\* tct(template, components) and t(template)
tct(template, components) == [template |-> template, components |-> components]

t(template) == [template |-> template, components |-> EmptyObject]

(* ----------------------------- renderReason ---------------------------- *)

\* variant: the last matching entry is taken instead of the first
find_lastMatch(activities) ==
  LET matches == {i \in 1..Len(activities) : activities[i].type = SET_RESOLVED_IN_RELEASE}
  IN IF matches = {} THEN undefined
     ELSE activities[CHOOSE i \in matches : \A j \in matches : i >= j]

\* activities.find(activity => activity.type === SET_RESOLVED_IN_RELEASE)
find(activities) ==
  LET matches == {i \in 1..Len(activities) : activities[i].type = SET_RESOLVED_IN_RELEASE}
  IN IF matches = {} THEN undefined
     ELSE activities[CHOOSE i \in matches : \A j \in matches : i <= j]

\* variant: relevantActivity.data.current_release_version, without the `?.`
currentReleaseVersion_noOptionalChaining(activities) ==
  LET relevantActivity == find(activities)
  IN IF relevantActivity = undefined THEN TypeError
     ELSE IF "data" \notin DOMAIN relevantActivity THEN TypeError
     ELSE Get(relevantActivity.data, "current_release_version")

\* relevantActivity?.data.current_release_version
currentReleaseVersion(activities) ==
  LET relevantActivity == find(activities)
  IN IF relevantActivity = undefined THEN undefined
     ELSE IF "data" \notin DOMAIN relevantActivity THEN TypeError
     ELSE Get(relevantActivity.data, "current_release_version")

\* statusDetails.<field> as a condition
Has(sd, field) == field \in DOMAIN sd

\* variant: the actor counts only when it has a name
IsSet_actorNamed(sd, field) ==
  /\ Has(sd, field)
  /\ IF field = "inNextRelease" THEN sd[field] = TRUE
     ELSE IF field = "inRelease" THEN sd[field] # ""
     ELSE IF field = "actor" THEN "name" \in DOMAIN sd[field]
     ELSE TRUE

\* variant: inNextRelease counts as soon as it is defined, even when false
IsSet_nextReleaseDefined(sd, field) ==
  /\ Has(sd, field)
  /\ IF field = "inRelease" THEN sd[field] # "" ELSE TRUE

\* variant: inRelease counts as soon as it is defined, even when empty
IsSet_releaseDefined(sd, field) ==
  /\ Has(sd, field)
  /\ IF field = "inNextRelease" THEN sd[field] = TRUE ELSE TRUE

IsSet(sd, field) ==
  /\ Has(sd, field)
  /\ IF field = "inNextRelease" THEN sd[field] = TRUE
     ELSE IF field = "inRelease" THEN sd[field] # ""
     ELSE TRUE

\* variant: inRelease is tested before inNextRelease
renderReason_releaseFirst(sd, pid, activities) ==
  LET crv == currentReleaseVersion(activities)
  IN IF crv = TypeError THEN TypeError
     ELSE IF IsSet(sd, "inRelease") /\ IsSet(sd, "actor") THEN
       IF Truthy(crv) THEN
         tct("[actor] marked this issue as resolved in versions greater than [version].",
             [actor |-> actorElement(sd), version |-> Version(crv.value, pid)])
       ELSE
         tct("[actor] marked this issue as resolved in version [version].",
             [actor |-> actorElement(sd), version |-> Version(sd.inRelease, pid)])
     ELSE IF IsSet(sd, "inRelease") THEN
       IF Truthy(crv) THEN
         tct("This issue has been marked as resolved in versions greater than [version].",
             [version |-> Version(crv.value, pid)])
       ELSE
         tct("This issue has been marked as resolved in version [version].",
             [version |-> Version(sd.inRelease, pid)])
     ELSE IF IsSet(sd, "inNextRelease") /\ IsSet(sd, "actor") THEN
       tct("[actor] marked this issue as resolved in the upcoming release.",
           [actor |-> actorElement(sd)])
     ELSE IF IsSet(sd, "inNextRelease") THEN
       t("This issue has been marked as resolved in the upcoming release.")
     ELSE IF IsSet(sd, "inCommit") THEN
       tct("This issue has been marked as resolved by [commit]",
           [commit |-> commitElement(sd.inCommit)])
     ELSE t("This issue has been marked as resolved.")

\* variant: inCommit is tested before inRelease
renderReason_commitFirst(sd, pid, activities) ==
  LET crv == currentReleaseVersion(activities)
  IN IF crv = TypeError THEN TypeError
     ELSE IF IsSet(sd, "inNextRelease") /\ IsSet(sd, "actor") THEN
       tct("[actor] marked this issue as resolved in the upcoming release.",
           [actor |-> actorElement(sd)])
     ELSE IF IsSet(sd, "inNextRelease") THEN
       t("This issue has been marked as resolved in the upcoming release.")
     ELSE IF IsSet(sd, "inCommit") THEN
       tct("This issue has been marked as resolved by [commit]",
           [commit |-> commitElement(sd.inCommit)])
     ELSE IF IsSet(sd, "inRelease") /\ IsSet(sd, "actor") THEN
       IF Truthy(crv) THEN
         tct("[actor] marked this issue as resolved in versions greater than [version].",
             [actor |-> actorElement(sd), version |-> Version(crv.value, pid)])
       ELSE
         tct("[actor] marked this issue as resolved in version [version].",
             [actor |-> actorElement(sd), version |-> Version(sd.inRelease, pid)])
     ELSE IF IsSet(sd, "inRelease") THEN
       IF Truthy(crv) THEN
         tct("This issue has been marked as resolved in versions greater than [version].",
             [version |-> Version(crv.value, pid)])
       ELSE
         tct("This issue has been marked as resolved in version [version].",
             [version |-> Version(sd.inRelease, pid)])
     ELSE t("This issue has been marked as resolved.")

\* variant: the attributed "versions greater than" message shows statusDetails.inRelease
renderReason_greaterThanRaw(sd, pid, activities) ==
  LET crv == currentReleaseVersion(activities)
  IN IF crv = TypeError THEN TypeError
     ELSE IF IsSet(sd, "inNextRelease") /\ IsSet(sd, "actor") THEN
       tct("[actor] marked this issue as resolved in the upcoming release.",
           [actor |-> actorElement(sd)])
     ELSE IF IsSet(sd, "inNextRelease") THEN
       t("This issue has been marked as resolved in the upcoming release.")
     ELSE IF IsSet(sd, "inRelease") /\ IsSet(sd, "actor") THEN
       IF Truthy(crv) THEN
         tct("[actor] marked this issue as resolved in versions greater than [version].",
             [actor |-> actorElement(sd), version |-> Version(sd.inRelease, pid)])
       ELSE
         tct("[actor] marked this issue as resolved in version [version].",
             [actor |-> actorElement(sd), version |-> Version(sd.inRelease, pid)])
     ELSE IF IsSet(sd, "inRelease") THEN
       IF Truthy(crv) THEN
         tct("This issue has been marked as resolved in versions greater than [version].",
             [version |-> Version(crv.value, pid)])
       ELSE
         tct("This issue has been marked as resolved in version [version].",
             [version |-> Version(sd.inRelease, pid)])
     ELSE IF IsSet(sd, "inCommit") THEN
       tct("This issue has been marked as resolved by [commit]",
           [commit |-> commitElement(sd.inCommit)])
     ELSE t("This issue has been marked as resolved.")

\* variant: without an actor the release lookup is not consulted
renderReason_passiveNoLookup(sd, pid, activities) ==
  LET crv == currentReleaseVersion(activities)
  IN IF crv = TypeError THEN TypeError
     ELSE IF IsSet(sd, "inNextRelease") /\ IsSet(sd, "actor") THEN
       tct("[actor] marked this issue as resolved in the upcoming release.",
           [actor |-> actorElement(sd)])
     ELSE IF IsSet(sd, "inNextRelease") THEN
       t("This issue has been marked as resolved in the upcoming release.")
     ELSE IF IsSet(sd, "inRelease") /\ IsSet(sd, "actor") THEN
       IF Truthy(crv) THEN
         tct("[actor] marked this issue as resolved in versions greater than [version].",
             [actor |-> actorElement(sd), version |-> Version(crv.value, pid)])
       ELSE
         tct("[actor] marked this issue as resolved in version [version].",
             [actor |-> actorElement(sd), version |-> Version(sd.inRelease, pid)])
     ELSE IF IsSet(sd, "inRelease") THEN
       tct("This issue has been marked as resolved in version [version].",
           [version |-> Version(sd.inRelease, pid)])
     ELSE IF IsSet(sd, "inCommit") THEN
       tct("This issue has been marked as resolved by [commit]",
           [commit |-> commitElement(sd.inCommit)])
     ELSE t("This issue has been marked as resolved.")

\* variant: the commit message also carries the looked-up release version
renderReason_commitVersion(sd, pid, activities) ==
  LET crv == currentReleaseVersion(activities)
  IN IF crv = TypeError THEN TypeError
     ELSE IF IsSet(sd, "inNextRelease") /\ IsSet(sd, "actor") THEN
       tct("[actor] marked this issue as resolved in the upcoming release.",
           [actor |-> actorElement(sd)])
     ELSE IF IsSet(sd, "inNextRelease") THEN
       t("This issue has been marked as resolved in the upcoming release.")
     ELSE IF IsSet(sd, "inRelease") /\ IsSet(sd, "actor") THEN
       IF Truthy(crv) THEN
         tct("[actor] marked this issue as resolved in versions greater than [version].",
             [actor |-> actorElement(sd), version |-> Version(crv.value, pid)])
       ELSE
         tct("[actor] marked this issue as resolved in version [version].",
             [actor |-> actorElement(sd), version |-> Version(sd.inRelease, pid)])
     ELSE IF IsSet(sd, "inRelease") THEN
       IF Truthy(crv) THEN
         tct("This issue has been marked as resolved in versions greater than [version].",
             [version |-> Version(crv.value, pid)])
       ELSE
         tct("This issue has been marked as resolved in version [version].",
             [version |-> Version(sd.inRelease, pid)])
     ELSE IF IsSet(sd, "inCommit") THEN
       IF Truthy(crv) THEN
         tct("This issue has been marked as resolved by [commit]",
             [commit |-> commitElement(sd.inCommit), version |-> Version(crv.value, pid)])
       ELSE
         tct("This issue has been marked as resolved by [commit]",
             [commit |-> commitElement(sd.inCommit)])
     ELSE t("This issue has been marked as resolved.")

renderReason(sd, pid, activities) ==
  LET crv == currentReleaseVersion(activities)
  IN IF crv = TypeError THEN TypeError
     ELSE IF IsSet(sd, "inNextRelease") /\ IsSet(sd, "actor") THEN
       tct("[actor] marked this issue as resolved in the upcoming release.",
           [actor |-> actorElement(sd)])
     ELSE IF IsSet(sd, "inNextRelease") THEN
       t("This issue has been marked as resolved in the upcoming release.")
     ELSE IF IsSet(sd, "inRelease") /\ IsSet(sd, "actor") THEN
       IF Truthy(crv) THEN
         tct("[actor] marked this issue as resolved in versions greater than [version].",
             [actor |-> actorElement(sd), version |-> Version(crv.value, pid)])
       ELSE
         tct("[actor] marked this issue as resolved in version [version].",
             [actor |-> actorElement(sd), version |-> Version(sd.inRelease, pid)])
     ELSE IF IsSet(sd, "inRelease") THEN
       IF Truthy(crv) THEN
         tct("This issue has been marked as resolved in versions greater than [version].",
             [version |-> Version(crv.value, pid)])
       ELSE
         tct("This issue has been marked as resolved in version [version].",
             [version |-> Version(sd.inRelease, pid)])
     ELSE IF IsSet(sd, "inCommit") THEN
       tct("This issue has been marked as resolved by [commit]",
           [commit |-> commitElement(sd.inCommit)])
     ELSE t("This issue has been marked as resolved.")

(* ----------------------------- ResolutionBox --------------------------- *)

\* the `activities = []` default of the props
activitiesOf(prop) == IF prop = <<>> THEN <<>> ELSE prop[1]

Init ==
  /\ statusDetails \in ResolutionStatusDetails
  /\ projectId \in ProjectIds
  /\ activitiesProp \in Opt(Histories)
  /\ rendered = <<>>
  /\ renders = 0
  /\ opts = [orgSlug |-> "org"]
  /\ built = <<>>
  /\ returned = <<>>

\* variant: the lookup removes the first entry from the history it was given
ResolutionBox_consumesHistory ==
  /\ renders < MaxRenders
  /\ rendered' = <<renderReason(statusDetails, projectId, activitiesOf(activitiesProp))>>
  /\ renders' = renders + 1
  /\ activitiesProp' = IF activitiesOf(activitiesProp) = <<>> THEN activitiesProp
                       ELSE <<Tail(activitiesProp[1])>>
  /\ UNCHANGED <<statusDetails, projectId>>
  /\ UNCHANGED urlVars

ResolutionBox ==
  /\ renders < MaxRenders
  /\ rendered' = <<renderReason(statusDetails, projectId, activitiesOf(activitiesProp))>>
  /\ renders' = renders + 1
  /\ UNCHANGED <<statusDetails, projectId, activitiesProp>>
  /\ UNCHANGED urlVars

Next == ResolutionBox

Spec == Init /\ [][Next]_vars

(***************************************************************************)
(* getIncidentDiscoverUrl (app/views/alerts/utils): the target of the      *)
(* discover view of an incident.  A value that may be undefined where an   *)
(* array is expected is `undefined` or Arr(seq).  An object spread         *)
(* {...a, ...b} is b @@ a: the later spread wins.                          *)
(***************************************************************************)

Arr(seq) == [typeof |-> "array", value |-> seq]

\* Dataset.ERRORS and Dataset.TRANSACTIONS
ERRORS == "events"

TRANSACTIONS == "transactions"

Projects == {[id |-> "1", slug |-> "a"], [id |-> "2", slug |-> "b"], [id |-> "3", slug |-> "c"]}

Aggregates == {"", "count()", "p95(transaction.duration)"}

AlertRules ==
  [timeWindow : {1, 60}, aggregate : Aggregates, dataset : {ERRORS, TRANSACTIONS}]

\* Incident: title, alertRule, the slugs of its projects, and an optional
\* discoverQuery
Incidents ==
  { [title |-> "Alert", alertRule |-> ar, projects |-> ps] @@ Prop("discoverQuery", q) :
      ar \in AlertRules,
      ps \in {<<>>, <<"a">>, <<"b", "a">>, <<"x", "b">>},
      q \in Opt({"level:error"}) }

IncidentStats == {[eventStats |-> [data |-> <<"2021-06-01T00:00:00", "2021-06-01T01:00:00">>]]}

\* Partial<NewQuery>
ExtraQueryParams ==
  { [k \in {} |-> k],
    [fields |-> <<"title">>],
    [projects |-> <<99>>, name |-> "mine"],
    [orderby |-> "-timestamp", yAxis |-> Arr(<<"count()">>)],
    [interval |-> "5m"] }

Options ==
  { [orgSlug |-> "org"] @@ Prop("projects", p) @@ Prop("incident", i) @@ Prop("stats", st)
      @@ Prop("extraQueryParams", x) :
      p \in Opt(SeqsUpTo(Projects, MaxProjects)), i \in Opt(Incidents),
      st \in Opt(IncidentStats), x \in Opt(ExtraQueryParams) }

\* getAggregateAlias (app/utils/discover/fields): the column name of an
\* aggregate, e.g. count_unique(user) -> count_unique_user
getAggregateAlias(aggregate) ==
  CASE aggregate = "count()" -> "count"
    [] aggregate = "p95(transaction.duration)" -> "p95_transaction_duration"
    [] OTHER -> aggregate

\* getStartEndFromStats (app/views/alerts/utils): the period the stats cover
getStartEndFromStats(stats) ==
  [start |-> stats.eventStats.data[1],
   end |-> stats.eventStats.data[Len(stats.eventStats.data)]]

\* Number(id) of a project id
Number(id) == CASE id = "1" -> 1 [] id = "2" -> 2 [] id = "3" -> 3

\* `${incident.alertRule.timeWindow}m`
timeWindowString(incident) == ToString(incident.alertRule.timeWindow) \o "m"

\* array.includes(x)
includes(array, x) == \E i \in 1..Len(array) : array[i] = x

\* variant: the ids are collected in the order of incident.projects
discoverProjects_incidentOrder(projects, incident) ==
  LET listed(project) == includes(incident.projects, project.slug)
      kept == SelectSeq(projects, listed)
      pos(slug) == CHOOSE i \in 1..Len(incident.projects) : incident.projects[i] = slug
      before(i) == {j \in 1..Len(kept) :
                      \/ pos(kept[j].slug) < pos(kept[i].slug)
                      \/ pos(kept[j].slug) = pos(kept[i].slug) /\ j <= i}
  IN [k \in 1..Len(kept) |->
        Number(kept[CHOOSE i \in 1..Len(kept) : Cardinality(before(i)) = k].id)]

\* projects.filter(({slug}) => incident.projects.includes(slug)).map(({id}) => Number(id))
discoverProjects(projects, incident) ==
  LET listed(project) == includes(incident.projects, project.slug)
      kept == SelectSeq(projects, listed)
  IN [i \in 1..Len(kept) |-> Number(kept[i].id)]

\* opts.extraQueryParams as spread into an object literal: nothing when absent
spread(obj, name) == IF name \in DOMAIN obj THEN obj[name] ELSE EmptyObject

\* variant: ordered by the aggregate ascending
discoverQuery_ascending(o) ==
  LET incident == o.incident
      startEnd == getStartEndFromStats(o.stats)
  IN spread(o, "extraQueryParams") @@
     [id |-> undefined,
      name |-> IF "title" \in DOMAIN incident /\ incident.title # ""
               THEN incident.title ELSE "",
      orderby |-> getAggregateAlias(incident.alertRule.aggregate),
      yAxis |-> IF incident.alertRule.aggregate # ""
                THEN Arr(<<incident.alertRule.aggregate>>) ELSE undefined,
      query |-> IF "discoverQuery" \in DOMAIN incident THEN incident.discoverQuery ELSE "",
      projects |-> discoverProjects(o.projects, incident),
      version |-> 2,
      fields |-> IF incident.alertRule.dataset = ERRORS
                 THEN <<"issue", "count()", "count_unique(user)">>
                 ELSE <<"transaction", incident.alertRule.aggregate>>,
      start |-> startEnd.start,
      end |-> startEnd.end]

\* the NewQuery object literal
discoverQuery(o) ==
  LET incident == o.incident
      startEnd == getStartEndFromStats(o.stats)
  IN spread(o, "extraQueryParams") @@
     [id |-> undefined,
      name |-> IF "title" \in DOMAIN incident /\ incident.title # ""
               THEN incident.title ELSE "",
      orderby |-> "-" \o getAggregateAlias(incident.alertRule.aggregate),
      yAxis |-> IF incident.alertRule.aggregate # ""
                THEN Arr(<<incident.alertRule.aggregate>>) ELSE undefined,
      query |-> IF "discoverQuery" \in DOMAIN incident THEN incident.discoverQuery ELSE "",
      projects |-> discoverProjects(o.projects, incident),
      version |-> 2,
      fields |-> IF incident.alertRule.dataset = ERRORS
                 THEN <<"issue", "count()", "count_unique(user)">>
                 ELSE <<"transaction", incident.alertRule.aggregate>>,
      start |-> startEnd.start,
      end |-> startEnd.end]

\* EventView.fromSavedQuery(saved).getResultsViewUrlTarget(orgSlug): the
\* results page of the organization, with the saved query as its query
getResultsViewUrlTarget(saved, orgSlug) ==
  [pathname |-> "/organizations/" \o orgSlug \o "/discover/results/",
   query |-> saved]

\* variant: an empty list of projects is let through
returnsEarly_noLengthCheck(o) ==
  \/ "projects" \notin DOMAIN o
  \/ "incident" \notin DOMAIN o
  \/ "stats" \notin DOMAIN o

\* if (!projects || !projects.length || !incident || !stats)
returnsEarly(o) ==
  \/ "projects" \notin DOMAIN o
  \/ Len(o.projects) = 0
  \/ "incident" \notin DOMAIN o
  \/ "stats" \notin DOMAIN o

\* variant: {interval: timeWindowString, ...query}: the target's interval wins
getIncidentDiscoverUrl_targetIntervalWins(o) ==
  IF returnsEarly(o) THEN Str("")
  ELSE LET target == getResultsViewUrlTarget(discoverQuery(o), o.orgSlug)
           query == target.query
           toObject == [k \in DOMAIN target \ {"query"} |-> target[k]]
       IN toObject @@ [query |-> query @@ ("interval" :> timeWindowString(o.incident))]

getIncidentDiscoverUrl(o) ==
  IF returnsEarly(o) THEN Str("")
  ELSE LET target == getResultsViewUrlTarget(discoverQuery(o), o.orgSlug)
           query == target.query
           toObject == [k \in DOMAIN target \ {"query"} |-> target[k]]
       IN toObject @@ [query |-> ("interval" :> timeWindowString(o.incident)) @@ query]

InitUrl ==
  /\ statusDetails = [inNextRelease |-> TRUE]
  /\ projectId = "1"
  /\ activitiesProp = <<>>
  /\ rendered = <<>>
  /\ renders = 0
  /\ opts \in Options
  /\ built = <<>>
  /\ returned = <<>>

CallGetIncidentDiscoverUrl ==
  /\ returned = <<>>
  /\ built' = IF returnsEarly(opts) THEN <<>> ELSE <<discoverQuery(opts)>>
  /\ returned' = <<getIncidentDiscoverUrl(opts)>>
  /\ UNCHANGED opts
  /\ UNCHANGED bannerVars

NextUrl == CallGetIncidentDiscoverUrl

SpecUrl == InitUrl /\ [][NextUrl]_vars

(* ------------------- vocabulary of the properties ---------------------- *)

\* the banner has been rendered, and the message it shows
Rendered == rendered # <<>>

message == rendered[1]

\* the activity history renderReason was given
history == activitiesOf(activitiesProp)

ActorPresent == "actor" \in DOMAIN statusDetails

InNextReleaseTrue ==
  "inNextRelease" \in DOMAIN statusDetails /\ statusDetails.inNextRelease

InReleaseSet == "inRelease" \in DOMAIN statusDetails /\ statusDetails.inRelease # ""

InCommitSet == "inCommit" \in DOMAIN statusDetails

IsReleaseEntry(a) == a.type = "set_resolved_in_release"

\* entry i is a set-resolved-in-release entry with a non-empty current_release_version
ConcreteEntry(h, i) ==
  /\ IsReleaseEntry(h[i])
  /\ "current_release_version" \in DOMAIN h[i].data
  /\ h[i].data.current_release_version # ""

\* entry i is the first set-resolved-in-release entry
FirstReleaseEntry(h, i) ==
  IsReleaseEntry(h[i]) /\ \A j \in 1..(i - 1) : ~IsReleaseEntry(h[j])

\* the expected rendering of the actor: avatar of the actor, then its name if any
ExpectedActor ==
  [UserAvatar |-> [user |-> statusDetails.actor, size |-> 20],
   span |-> IF "name" \in DOMAIN statusDetails.actor
            THEN [typeof |-> "string", value |-> statusDetails.actor.name]
            ELSE [typeof |-> "undefined"]]

ExpectedVersion(v) == [version |-> v, projectId |-> projectId, tooltipRawVersion |-> TRUE]

UpcomingTemplates ==
  {"[actor] marked this issue as resolved in the upcoming release.",
   "This issue has been marked as resolved in the upcoming release."}

ReleaseTemplates ==
  {"[actor] marked this issue as resolved in versions greater than [version].",
   "[actor] marked this issue as resolved in version [version].",
   "This issue has been marked as resolved in versions greater than [version].",
   "This issue has been marked as resolved in version [version]."}

CommitTemplate == "This issue has been marked as resolved by [commit]"

FallbackTemplate == "This issue has been marked as resolved."

(* ------------------------------ properties ----------------------------- *)

\* C1: with inNextRelease true and an actor, the message is the attributed
\* upcoming-release message, whatever inRelease, inCommit and the history are.
C1_UpcomingWithActor ==
  (Rendered /\ InNextReleaseTrue /\ ActorPresent) =>
    message = [template |-> "[actor] marked this issue as resolved in the upcoming release.",
               components |-> [actor |-> ExpectedActor]]

C1_Witness ==
  /\ Rendered /\ InNextReleaseTrue /\ ActorPresent /\ InReleaseSet /\ InCommitSet
  /\ \E i \in 1..Len(history) : ConcreteEntry(history, i)
  /\ message.template = "[actor] marked this issue as resolved in the upcoming release."

\* C2 as stated: with inNextRelease not true, inRelease set, an actor, and a
\* history that contains some set-resolved-in-release entry with a non-empty
\* current_release_version, the message is the attributed "versions greater
\* than" message carrying the current_release_version of such an entry.
C2_AnyConcreteEntry ==
  (/\ Rendered /\ ~InNextReleaseTrue /\ InReleaseSet /\ ActorPresent
   /\ \E i \in 1..Len(history) : ConcreteEntry(history, i)) =>
    \E i \in 1..Len(history) :
      /\ ConcreteEntry(history, i)
      /\ message =
           [template |-> "[actor] marked this issue as resolved in versions greater than [version].",
            components |-> [actor |-> ExpectedActor,
                            version |-> ExpectedVersion(history[i].data.current_release_version)]]

\* C2 (amended): the same, when the FIRST set-resolved-in-release entry of the
\* history is the one with a non-empty current_release_version; the message
\* carries that entry's current_release_version.
C2_FirstConcreteEntry ==
  \A i \in 1..Len(history) :
    (/\ Rendered /\ ~InNextReleaseTrue /\ InReleaseSet /\ ActorPresent
     /\ FirstReleaseEntry(history, i) /\ ConcreteEntry(history, i)) =>
      message =
        [template |-> "[actor] marked this issue as resolved in versions greater than [version].",
         components |-> [actor |-> ExpectedActor,
                         version |-> ExpectedVersion(history[i].data.current_release_version)]]

C2_Witness ==
  /\ Rendered /\ ~InNextReleaseTrue /\ ActorPresent
  /\ InReleaseSet /\ statusDetails.inRelease = "1.2.0"
  /\ Len(history) = 2 /\ ~IsReleaseEntry(history[1]) /\ ConcreteEntry(history, 2)
  /\ message.components.version.version = "1.3.0"

\* C3: with inNextRelease not true, inRelease set, an actor, and a history
\* that is empty or has no set-resolved-in-release entry, the message is the
\* attributed "resolved in version" message with the raw inRelease value.
C3_RawVersionWithActor ==
  (/\ Rendered /\ ~InNextReleaseTrue /\ InReleaseSet /\ ActorPresent
   /\ \A i \in 1..Len(history) : ~IsReleaseEntry(history[i])) =>
    message = [template |-> "[actor] marked this issue as resolved in version [version].",
               components |-> [actor |-> ExpectedActor,
                               version |-> ExpectedVersion(statusDetails.inRelease)]]

C3_Witness ==
  /\ Rendered /\ ~InNextReleaseTrue /\ InReleaseSet /\ ActorPresent
  /\ "name" \notin DOMAIN statusDetails.actor
  /\ Len(history) = 2 /\ \A i \in 1..Len(history) : ~IsReleaseEntry(history[i])
  /\ message.components.version.version = "1.2.0"

\* C4: renderReason always produces a message and raises no error: whatever
\* fields are present and whatever the history holds (also a
\* set-resolved-in-release entry without current_release_version), the result
\* is one of the messages of the branches, with exactly the placeholders of
\* its template bound.
C4_AlwaysAMessage ==
  Rendered =>
    /\ message # [throw |-> "TypeError"]
    /\ DOMAIN message = {"template", "components"}
    /\ \/ /\ message.template = "[actor] marked this issue as resolved in the upcoming release."
          /\ DOMAIN message.components = {"actor"}
       \/ /\ message.template = "This issue has been marked as resolved in the upcoming release."
          /\ DOMAIN message.components = {}
       \/ /\ message.template \in
               {"[actor] marked this issue as resolved in versions greater than [version].",
                "[actor] marked this issue as resolved in version [version]."}
          /\ DOMAIN message.components = {"actor", "version"}
       \/ /\ message.template \in
               {"This issue has been marked as resolved in versions greater than [version].",
                "This issue has been marked as resolved in version [version]."}
          /\ DOMAIN message.components = {"version"}
       \/ /\ message.template = CommitTemplate
          /\ DOMAIN message.components = {"commit"}
       \/ /\ message.template = FallbackTemplate
          /\ DOMAIN message.components = {}

C4_Witness ==
  /\ Rendered /\ ~ActorPresent /\ ~InNextReleaseTrue /\ InReleaseSet
  /\ Len(history) >= 1 /\ IsReleaseEntry(history[1])
  /\ "current_release_version" \notin DOMAIN history[1].data
  /\ message.template = "This issue has been marked as resolved in version [version]."

\* C5: strict precedence next-release > release > commit > generic: the message
\* is the one of the highest-precedence field that is set and binds nothing of
\* the fields below it; with inNextRelease not true and both inRelease and
\* inCommit set, it is a release message and never the commit message.
C5_Precedence ==
  Rendered =>
    /\ InNextReleaseTrue =>
         /\ message.template \in UpcomingTemplates
         /\ DOMAIN message.components \subseteq {"actor"}
    /\ (~InNextReleaseTrue /\ InReleaseSet) =>
         /\ message.template \in ReleaseTemplates
         /\ "commit" \notin DOMAIN message.components
    /\ (~InNextReleaseTrue /\ ~InReleaseSet /\ InCommitSet) =>
         /\ message.template = CommitTemplate
    /\ (~InNextReleaseTrue /\ ~InReleaseSet /\ ~InCommitSet) =>
         /\ message.template = FallbackTemplate

C5_Witness ==
  /\ Rendered /\ ~InNextReleaseTrue /\ InReleaseSet /\ InCommitSet
  /\ message.template \in ReleaseTemplates

\* C6: when only inCommit is set, the message is "This issue has been marked
\* as resolved by [commit]" with the commit's id, repository and the time since
\* its dateCreated, and neither an actor nor a version, actor present or not.
C6_CommitOnly ==
  (Rendered /\ ~InNextReleaseTrue /\ ~InReleaseSet /\ InCommitSet) =>
    message =
      [template |-> "This issue has been marked as resolved by [commit]",
       components |->
         [commit |-> [CommitLink |-> [commitId |-> statusDetails.inCommit.id,
                                      repository |-> statusDetails.inCommit.repository],
                      TimeSince |-> [date |-> statusDetails.inCommit.dateCreated]]]]

C6_Witness ==
  /\ Rendered /\ ~InNextReleaseTrue /\ ~InReleaseSet /\ InCommitSet /\ ActorPresent
  /\ \E i \in 1..Len(history) : ConcreteEntry(history, i)
  /\ message.components.commit.CommitLink.commitId = "abc123"

\* C7: when none of inNextRelease, inRelease and inCommit is set, the message
\* is exactly "This issue has been marked as resolved.", whatever the actor and
\* the history.
C7_Fallback ==
  (Rendered /\ ~InNextReleaseTrue /\ ~InReleaseSet /\ ~InCommitSet) =>
    message = [template |-> "This issue has been marked as resolved.",
               components |-> [k \in {} |-> k]]

C7_Witness ==
  /\ Rendered /\ ~InReleaseSet /\ ~InCommitSet /\ ActorPresent
  /\ "inNextRelease" \in DOMAIN statusDetails /\ ~statusDetails.inNextRelease
  /\ \E i \in 1..Len(history) : ConcreteEntry(history, i)
  /\ message.template = FallbackTemplate

\* C8: with inNextRelease true and no actor, the message is the passive
\* upcoming-release message without any actor, whatever inRelease, inCommit
\* and the history are.
C8_UpcomingPassive ==
  (Rendered /\ InNextReleaseTrue /\ ~ActorPresent) =>
    message = [template |-> "This issue has been marked as resolved in the upcoming release.",
               components |-> [k \in {} |-> k]]

C8_Witness ==
  /\ Rendered /\ InNextReleaseTrue /\ ~ActorPresent /\ InReleaseSet /\ InCommitSet
  /\ \E i \in 1..Len(history) : ConcreteEntry(history, i)
  /\ message.template = "This issue has been marked as resolved in the upcoming release."

\* the release-activity lookup yielded a concrete version: the first
\* set-resolved-in-release entry has a non-empty current_release_version
LookupConcrete(h) ==
  \E i \in 1..Len(h) : FirstReleaseEntry(h, i) /\ ConcreteEntry(h, i)

LookupVersion(h) ==
  h[CHOOSE i \in 1..Len(h) : FirstReleaseEntry(h, i)].data.current_release_version

\* C9: with inNextRelease not true, inRelease set and no actor, the message is
\* passive, has no actor, and makes the same two-way choice: "versions greater
\* than" the looked-up version when the lookup yielded a concrete version,
\* otherwise "version" with the raw inRelease value.
C9_ReleasePassive ==
  (Rendered /\ ~InNextReleaseTrue /\ InReleaseSet /\ ~ActorPresent) =>
    message =
      IF LookupConcrete(history)
      THEN [template |-> "This issue has been marked as resolved in versions greater than [version].",
            components |-> [version |-> ExpectedVersion(LookupVersion(history))]]
      ELSE [template |-> "This issue has been marked as resolved in version [version].",
            components |-> [version |-> ExpectedVersion(statusDetails.inRelease)]]

C9_Witness ==
  /\ Rendered /\ ~InNextReleaseTrue /\ InReleaseSet /\ ~ActorPresent
  /\ LookupConcrete(history)
  /\ message.template =
       "This issue has been marked as resolved in versions greater than [version]."
  /\ message.components.version.version = "1.4.0"

\* C10: outside the inRelease branches the history has no influence: when the
\* status details select an upcoming-release, commit or fallback message, the
\* message rendered from the actual history is the message renderReason gives
\* for every other history, and it carries no version.
C10_HistoryOnlyInRelease ==
  (Rendered /\ (InNextReleaseTrue \/ ~InReleaseSet)) =>
    /\ "version" \notin DOMAIN message.components
    /\ \A h \in Histories : renderReason(statusDetails, projectId, h) = message

C10_Witness ==
  /\ Rendered /\ ~InNextReleaseTrue /\ ~InReleaseSet /\ InCommitSet
  /\ LookupConcrete(history) /\ LookupVersion(history) = "1.3.0"
  /\ message.template = CommitTemplate

\* C11: the release-activity lookup uses the first set-resolved-in-release
\* entry of the history: in the inRelease branches the version shown is the
\* current_release_version of the earliest such entry when it is non-empty,
\* and the raw inRelease otherwise; later entries have no effect.
C11_FirstMatchWins ==
  \A i \in 1..Len(history) :
    (Rendered /\ ~InNextReleaseTrue /\ InReleaseSet /\ FirstReleaseEntry(history, i)) =>
      message.components.version.version =
        IF ConcreteEntry(history, i) THEN history[i].data.current_release_version
        ELSE statusDetails.inRelease

C11_Witness ==
  /\ Rendered /\ ~InNextReleaseTrue /\ InReleaseSet
  /\ Len(history) = 2 /\ ConcreteEntry(history, 1) /\ ConcreteEntry(history, 2)
  /\ history[1].data.current_release_version = "1.4.0"
  /\ history[2].data.current_release_version = "1.3.0"
  /\ message.components.version.version = "1.4.0"

C18_EmptyReleaseNotSet ==
  (/\ Rendered /\ ~InNextReleaseTrue
   /\ "inRelease" \in DOMAIN statusDetails /\ statusDetails.inRelease = "") =>
    /\ message.template = IF InCommitSet THEN CommitTemplate ELSE FallbackTemplate
    /\ DOMAIN message.components = IF InCommitSet THEN {"commit"} ELSE {}

C18_Witness ==
  /\ Rendered /\ ~InNextReleaseTrue /\ ActorPresent /\ ~InCommitSet
  /\ "inRelease" \in DOMAIN statusDetails /\ statusDetails.inRelease = ""
  /\ LookupConcrete(history)
  /\ message.template = FallbackTemplate

(* ------------- vocabulary of the properties of the URL builder --------- *)

\* getIncidentDiscoverUrl has been called, and what it returned
Called == returned # <<>>

result == returned[1]

\* the call built a discover query, and the query it built
Built == built # <<>>

query == built[1]

\* extraQueryParams overrides the given field of the discover query
Overrides(field) ==
  "extraQueryParams" \in DOMAIN opts /\ field \in DOMAIN opts.extraQueryParams

aggregate == opts.incident.alertRule.aggregate

\* C13 as stated: by default the fields of the discover query are [issue,
\* count(), count_unique(user)] for an Error dataset alert rule and
\* [transaction, count()] for a Transaction dataset alert rule, whatever the
\* aggregate of the alert rule.
C13_DefaultFields ==
  (Built /\ ~Overrides("fields")) =>
    /\ opts.incident.alertRule.dataset = "events" =>
         query.fields = <<"issue", "count()", "count_unique(user)">>
    /\ opts.incident.alertRule.dataset = "transactions" =>
         query.fields = <<"transaction", "count()">>

\* C14 as stated: by default orderby is "-" followed by the alias of the alert
\* rule's aggregate and yAxis is that aggregate, for every incident a URL is
\* built for.
C14_OrderbyAndYAxis ==
  (Built /\ ~Overrides("orderby") /\ ~Overrides("yAxis")) =>
    /\ query.orderby = "-" \o getAggregateAlias(aggregate)
    /\ query.yAxis = [typeof |-> "array", value |-> <<aggregate>>]

\* C14 (amended): by default orderby is "-" followed by the alias of the alert
\* rule's aggregate; yAxis is that aggregate when the aggregate is a non-empty
\* string and is undefined when it is empty.
C14_OrderbyAndYAxisIfAggregate ==
  (Built /\ ~Overrides("orderby") /\ ~Overrides("yAxis")) =>
    /\ query.orderby = "-" \o getAggregateAlias(aggregate)
    /\ query.yAxis = IF aggregate = "" THEN [typeof |-> "undefined"]
                     ELSE [typeof |-> "array", value |-> <<aggregate>>]

C14_Witness ==
  /\ Built /\ ~Overrides("orderby") /\ ~Overrides("yAxis")
  /\ aggregate = "p95(transaction.duration)"
  /\ query.orderby = "-p95_transaction_duration"
  /\ query.yAxis.value = <<"p95(transaction.duration)">>

\* C15: getIncidentDiscoverUrl returns the empty string, and builds no query,
\* exactly when projects is absent or empty, or incident is absent, or stats
\* is absent; in every other case it returns a URL target with a query.
C15_EmptyStringExactlyWhen ==
  Called =>
    LET incomplete ==
          \/ "projects" \notin DOMAIN opts
          \/ opts.projects = <<>>
          \/ "incident" \notin DOMAIN opts
          \/ "stats" \notin DOMAIN opts
    IN /\ incomplete => (result = [typeof |-> "string", value |-> ""] /\ ~Built)
       /\ ~incomplete =>
            /\ Built
            /\ DOMAIN result = {"pathname", "query"}
            /\ "interval" \in DOMAIN result.query

C15_Witness ==
  /\ Called /\ result = [typeof |-> "string", value |-> ""] /\ ~Built
  /\ "projects" \in DOMAIN opts /\ opts.projects = <<>>
  /\ "incident" \in DOMAIN opts /\ "stats" \in DOMAIN opts

\* the positions of the given projects whose slug the incident lists
ListedPositions ==
  {i \in 1..Len(opts.projects) :
     \E j \in 1..Len(opts.incident.projects) :
       opts.incident.projects[j] = opts.projects[i].slug}

\* C16: by default the projects of the discover query are the numeric ids of
\* exactly the given projects whose slug incident.projects lists, in the order
\* of the given list: nothing for a given project that is not listed, nothing
\* for a listed slug that no given project has.
C16_ListedProjectsInGivenOrder ==
  (Built /\ ~Overrides("projects")) =>
    /\ Len(query.projects) = Cardinality(ListedPositions)
    /\ \A i \in ListedPositions :
         query.projects[Cardinality({j \in ListedPositions : j <= i})] =
           Number(opts.projects[i].id)

C16_Witness ==
  /\ Built /\ ~Overrides("projects")
  /\ opts.incident.projects = <<"b", "a">>
  /\ opts.projects = <<[id |-> "1", slug |-> "a"], [id |-> "2", slug |-> "b"]>>
  /\ query.projects = <<1, 2>>

\* C17: whenever a URL target is returned, the interval of its query is the
\* alert rule's timeWindow followed by "m", whatever extraQueryParams holds
\* and whatever interval the event view's target carried; every other field
\* of extraQueryParams replaces the default of the discover query.
C17_IntervalIsTimeWindow ==
  (Called /\ Built) =>
    /\ result.query.interval = ToString(opts.incident.alertRule.timeWindow) \o "m"
    /\ "extraQueryParams" \in DOMAIN opts =>
         \A k \in DOMAIN opts.extraQueryParams \ {"interval"} :
           /\ query[k] = opts.extraQueryParams[k]
           /\ result.query[k] = opts.extraQueryParams[k]

C17_Witness ==
  /\ Called /\ Built
  /\ Overrides("interval") /\ opts.extraQueryParams.interval = "5m"
  /\ query.interval = "5m"
  /\ opts.incident.alertRule.timeWindow = 60
  /\ result.query.interval = "60m"

====
